---- MODULE Spec2Model ----
(***************************************************************************)
(* Model of utils/config.py (class Config): the deep merge                 *)
(* Config._merge_a_into_b, the back-substitution                            *)
(* Config._substitute_base_vars and the recursive loader Config._file2dict. *)
(*                                                                         *)
(* Python values are tagged records with the same five fields, so that any *)
(* two values can be compared:                                             *)
(*   t : the type ("none", "bool", "int", "str", "dict", "ConfigDict",     *)
(*       "list", "tuple")                                                  *)
(*   n : the payload of a bool (0/1) or an int                             *)
(*   s : the payload of a str                                              *)
(*   d : the items of a dict, in insertion order, as records [k, v]        *)
(*   l : the elements of a list or tuple                                   *)
(***************************************************************************)
EXTENDS Integers, Sequences, FiniteSets, TLC

VARIABLES
    op,             \* the operation that ran last ("idle" when none)
    arg_a, arg_b,   \* _merge_a_into_b: the arguments a and b
    allow,          \* _merge_a_into_b: the argument allow_list_keys
    res,            \* _merge_a_into_b: what the call gave
    sub_cfg,        \* _substitute_base_vars: the argument cfg
    sub_var_dict,   \* _substitute_base_vars: the argument base_var_dict
    sub_base_cfg,   \* _substitute_base_vars: the argument base_cfg
    sres,           \* _substitute_base_vars: what the call gave
    fs,             \* _file2dict: the config files, by path
    stack,          \* _file2dict: the frames of the calls in progress
    ret,            \* _file2dict: how the call that ended last ended
    entry,          \* fromfile: the file the load was called on
    heap,           \* the ConfigDict objects that Config objects refer to
    docs,           \* the Config objects: _cfg_dict (a reference), _filename, _text
    built,          \* what each Config object held when it was made
    dres,           \* what the last operation on a Config gave
    pre_in,         \* _pre_substitute_base_vars: the text, the order of the
                    \* set base_vars and the random suffixes
    pres            \* _pre_substitute_base_vars: what the call gave

merge_vars == <<arg_a, arg_b, allow, res>>
subst_vars == <<sub_cfg, sub_var_dict, sub_base_cfg, sres>>
load_vars == <<fs, stack, ret>>
doc_vars == <<entry, heap, docs, built, dres>>
pre_vars == <<pre_in, pres>>
vars == <<op, merge_vars, subst_vars, load_vars, doc_vars, pre_vars>>

(***************************************************************************)
(* Bounds of the model.                                                    *)
(***************************************************************************)
MaxInt == 2
MaxLen == 2
\* the calls of _file2dict in progress at one time
MaxDepth == 3
\* the Config objects alive at one time
MaxDocs == 2

(***************************************************************************)
(* Program constants.                                                      *)
(***************************************************************************)
BASE_KEY == "_base_"
DELETE_KEY == "_delete_"
DEPRECATION_KEY == "_deprecation_"
RESERVED_KEYS == {"filename", "text", "pretty_text"}

(***************************************************************************)
(* Python values.                                                          *)
(***************************************************************************)
PyNone == [t |-> "none", n |-> 0, s |-> "", d |-> <<>>, l |-> <<>>]
PyBool(x) == [t |-> "bool", n |-> IF x THEN 1 ELSE 0, s |-> "", d |-> <<>>, l |-> <<>>]
PyInt(i) == [t |-> "int", n |-> i, s |-> "", d |-> <<>>, l |-> <<>>]
PyStr(x) == [t |-> "str", n |-> 0, s |-> x, d |-> <<>>, l |-> <<>>]
PyDict(items) == [t |-> "dict", n |-> 0, s |-> "", d |-> items, l |-> <<>>]
PyList(elems) == [t |-> "list", n |-> 0, s |-> "", d |-> <<>>, l |-> elems]
PyTuple(elems) == [t |-> "tuple", n |-> 0, s |-> "", d |-> <<>>, l |-> elems]
Item(k, v) == [k |-> k, v |-> v]

\* isinstance(v, dict): ConfigDict is a subclass of dict
IsDict(v) == v.t \in {"dict", "ConfigDict"}
\* isinstance(v, list)
IsList(v) == v.t = "list"
\* isinstance(v, tuple)
IsTuple(v) == v.t = "tuple"
\* isinstance(v, str)
IsStr(v) == v.t = "str"

\* bool(v): None, False, 0, '' and the empty containers are false
Truthy(v) ==
    CASE v.t = "none" -> FALSE
      [] v.t \in {"bool", "int"} -> v.n # 0
      [] v.t = "str" -> v.s # ""
      [] IsDict(v) -> v.d # <<>>
      [] OTHER -> v.l # <<>>

\* d.keys()
KeysOf(v) == {v.d[i].k : i \in 1..Len(v.d)}
\* k in d
HasKey(v, k) == k \in KeysOf(v)
\* the position of k among the items of d
PosOf(v, k) == CHOOSE i \in 1..Len(v.d) : v.d[i].k = k
\* d[k] for a key that d holds
GetItem(v, k) == v.d[PosOf(v, k)].v
\* d[k] = x : an existing key keeps its position, a new key is appended
SetItem(v, k, x) ==
    IF HasKey(v, k)
    THEN [v EXCEPT !.d[PosOf(v, k)].v = x]
    ELSE [v EXCEPT !.d = Append(v.d, Item(k, x))]
\* del d[k]
DelItem(v, k) ==
    LET p == PosOf(v, k)
    IN [v EXCEPT !.d = SubSeq(v.d, 1, p - 1) \o SubSeq(v.d, p + 1, Len(v.d))]

\* ConfigDict(v): addict converts the mapping and every mapping nested in it
\* (also inside lists and tuples) to the ConfigDict class
RECURSIVE ConfigDict(_)
ConfigDict(v) ==
    CASE IsDict(v) ->
           [v EXCEPT !.t = "ConfigDict",
                     !.d = [i \in 1..Len(v.d) |-> Item(v.d[i].k, ConfigDict(v.d[i].v))]]
      [] IsList(v) \/ IsTuple(v) ->
           [v EXCEPT !.l = [i \in 1..Len(v.l) |-> ConfigDict(v.l[i])]]
      [] OTHER -> v

\* Python's == on values: a dict equals a ConfigDict with the same items,
\* whatever the order of the items
RECURSIVE PyEq(_, _)
PyEq(v, w) ==
    CASE IsDict(v) /\ IsDict(w) ->
           /\ KeysOf(v) = KeysOf(w)
           /\ \A k \in KeysOf(v) : PyEq(GetItem(v, k), GetItem(w, k))
      [] v.t \in {"list", "tuple"} /\ v.t = w.t ->
           /\ Len(v.l) = Len(w.l)
           /\ \A i \in 1..Len(v.l) : PyEq(v.l[i], w.l[i])
      [] v.t \in {"bool", "int"} /\ w.t \in {"bool", "int"} -> v.n = w.n
      [] OTHER -> v = w

(***************************************************************************)
(* Exceptions: the class, the place that raises it and the key it names.   *)
(***************************************************************************)
NoErr == [exc |-> "", site |-> "", key |-> ""]
Raise(exc, site, key) == [exc |-> exc, site |-> site, key |-> key]

(***************************************************************************)
(* Strings.                                                                *)
(***************************************************************************)
\* character i of the string x
CharAt(x, i) == SubSeq(x, i, i)
Digits == {"0", "1", "2", "3", "4", "5", "6", "7", "8", "9"}
DigitVal(c) ==
    CASE c = "0" -> 0 [] c = "1" -> 1 [] c = "2" -> 2 [] c = "3" -> 3 [] c = "4" -> 4
      [] c = "5" -> 5 [] c = "6" -> 6 [] c = "7" -> 7 [] c = "8" -> 8 [] OTHER -> 9
\* k.isdigit(): not empty and every character a digit
IsDigit(k) == Len(k) > 0 /\ \A i \in 1..Len(k) : CharAt(k, i) \in Digits
\* int(k) of a digit string
RECURSIVE IntOf(_)
IntOf(k) ==
    IF Len(k) = 0 THEN 0
    ELSE 10 * IntOf(SubSeq(k, 1, Len(k) - 1)) + DigitVal(CharAt(k, Len(k)))
\* sub in x
Contains(x, sub) ==
    \E i \in 1..(Len(x) - Len(sub) + 1) : SubSeq(x, i, i + Len(sub) - 1) = sub
\* x.split('.'): the pieces between the dots, empty pieces included
RECURSIVE SplitDots(_)
SplitDots(x) ==
    IF \E i \in 1..Len(x) : CharAt(x, i) = "."
    THEN LET p == CHOOSE i \in 1..Len(x) :
                    CharAt(x, i) = "." /\ \A j \in 1..(i - 1) : CharAt(x, j) # "."
         IN <<SubSeq(x, 1, p - 1)>> \o SplitDots(SubSeq(x, p + 1, Len(x)))
    ELSE <<x>>

(***************************************************************************)
(* Config._merge_a_into_b(a, b, allow_list_keys).                          *)
(*                                                                         *)
(* A call returns [err, out, a, b]: the exception it raises (NoErr when it *)
(* returns), the value it returns, and the objects a and b of the caller   *)
(* as the call leaves them.  The loop keeps                                *)
(*   a      : the object a (v.pop changes the mappings nested in it)       *)
(*   b0     : the object b of the caller                                   *)
(*   b      : the local b, the copy the loop writes to                     *)
(*   shared : whether b0 and b are one object                              *)
(***************************************************************************)
MergeRet(err, out, a, b) == [err |-> err, out |-> out, a |-> a, b |-> b]

\* the local b is the caller's own object
b_copy_alias(b) == [obj |-> b, shared |-> TRUE]

\* line 289, b = b.copy(): the local b is a new object with the items of b
b_copy(b) == [obj |-> b, shared |-> FALSE]

\* hasattr(b, 'copy'): dict, ConfigDict and list have the method
HasCopy(b) == IsDict(b) \/ IsList(b)

\* b[k] = x on the local b (a dict); the caller's b sees it only when shared
StoreKey(st, k, x) ==
    [st EXCEPT !.b = SetItem(st.b, k, x),
               !.b0 = IF st.shared THEN SetItem(st.b, k, x) ELSE st.b0]

\* b[i] = x on the local b (a list), i counted from 0
StoreIdx(st, i, x) ==
    [st EXCEPT !.b = [st.b EXCEPT !.l[i + 1] = x],
               !.b0 = IF st.shared THEN [st.b EXCEPT !.l[i + 1] = x] ELSE st.b0]

\* the object held at b[k] is the same object in b0 and in b: what a
\* recursive call does to it in place shows in both
TouchKey(st, k, x) ==
    [st EXCEPT !.b = SetItem(st.b, k, x), !.b0 = SetItem(st.b0, k, x)]
TouchIdx(st, i, x) ==
    [st EXCEPT !.b = [st.b EXCEPT !.l[i + 1] = x],
               !.b0 = [st.b0 EXCEPT !.l[i + 1] = x]]

\* the value v of item i of a, as the loop body leaves it
SetA(st, i, v) == [st EXCEPT !.a = [st.a EXCEPT !.d[i].v = v]]

\* line 298: allowed_types
allowed_types(v, allow_list_keys) ==
    IF allow_list_keys THEN IsDict(v) \/ IsList(v) ELSE IsDict(v)

\* line 297: `k and b and not v.pop(DELETE_KEY, False)`; `and` evaluates
\* v.pop only when k and b are both true.  Gives the value of the condition
\* and v as the evaluation leaves it.
inherit_cond(k, b, v) ==
    IF k # "" /\ Truthy(b)
    THEN IF HasKey(v, DELETE_KEY)
         THEN [cond |-> ~Truthy(GetItem(v, DELETE_KEY)), v |-> DelItem(v, DELETE_KEY)]
         ELSE [cond |-> TRUE, v |-> v]
    ELSE [cond |-> FALSE, v |-> v]

RECURSIVE merge_a_into_b(_, _, _)
RECURSIVE merge_loop(_, _, _)

\* lines 291-295: the branch of a digit key when b is a list
merge_list_key(i, st, allow_list_keys) ==
    LET k == IntOf(st.a.d[i].k)
        v == st.a.d[i].v
    IN IF Len(st.b.l) < k
       THEN MergeRet(Raise("KeyError", "index_check", st.a.d[i].k), PyNone, st.a, st.b0)
       ELSE IF k >= Len(st.b.l)
       THEN MergeRet(Raise("IndexError", "list_index", st.a.d[i].k), PyNone, st.a, st.b0)
       ELSE LET r == merge_a_into_b(v, st.b.l[k + 1], allow_list_keys)
                s1 == TouchIdx(SetA(st, i, r.a), k, r.b)
            IN IF r.err # NoErr
               THEN MergeRet(r.err, PyNone, s1.a, s1.b0)
               ELSE merge_loop(i + 1, StoreIdx(s1, k, r.out), allow_list_keys)

\* lines 296-309: the branch of a mapping v
merge_dict_value(i, st, allow_list_keys) ==
    LET k == st.a.d[i].k
        c == inherit_cond(k, st.b, st.a.d[i].v)
        s0 == SetA(st, i, c.v)
    IN IF c.cond
       THEN \* line 299 reads b[k]
            IF IsList(s0.b)
            THEN MergeRet(Raise("TypeError", "list_index", k), PyNone, s0.a, s0.b0)
            ELSE IF ~HasKey(s0.b, k)
            THEN MergeRet(Raise("KeyError", "getitem", k), PyNone, s0.a, s0.b0)
            ELSE IF ~allowed_types(GetItem(s0.b, k), allow_list_keys)
            THEN MergeRet(Raise("TypeError", "inherit", k), PyNone, s0.a, s0.b0)
            ELSE LET r == merge_a_into_b(c.v, GetItem(s0.b, k), allow_list_keys)
                     s1 == TouchKey(SetA(s0, i, r.a), k, r.b)
                 IN IF r.err # NoErr
                    THEN MergeRet(r.err, PyNone, s1.a, s1.b0)
                    ELSE merge_loop(i + 1, StoreKey(s1, k, r.out), allow_list_keys)
       ELSE \* line 309
            IF IsList(s0.b)
            THEN MergeRet(Raise("TypeError", "list_index", k), PyNone, s0.a, s0.b0)
            ELSE merge_loop(i + 1, StoreKey(s0, k, ConfigDict(c.v)), allow_list_keys)

\* lines 310-311: any other v
merge_other_value(i, st, allow_list_keys) ==
    LET k == st.a.d[i].k
        v == st.a.d[i].v
    IN IF IsList(st.b)
       THEN MergeRet(Raise("TypeError", "list_index", k), PyNone, st.a, st.b0)
       ELSE merge_loop(i + 1, StoreKey(st, k, v), allow_list_keys)

\* lines 290-312: the loop over a.items(), from item i on, and the return
merge_loop(i, st, allow_list_keys) ==
    IF i > Len(st.a.d)
    THEN MergeRet(NoErr, st.b, st.a, st.b0)
    ELSE IF allow_list_keys /\ IsDigit(st.a.d[i].k) /\ IsList(st.b)
    THEN merge_list_key(i, st, allow_list_keys)
    ELSE IF IsDict(st.a.d[i].v)
    THEN merge_dict_value(i, st, allow_list_keys)
    ELSE merge_other_value(i, st, allow_list_keys)

\* lines 263-312
merge_a_into_b(a, b, allow_list_keys) ==
    IF ~HasCopy(b)
    THEN MergeRet(Raise("AttributeError", "copy", ""), PyNone, a, b)
    ELSE IF ~IsDict(a)
    THEN MergeRet(Raise("AttributeError", "items", ""), PyNone, a, b)
    ELSE LET c == b_copy(b)
         IN merge_loop(1, [a |-> a, b0 |-> b, b |-> c.obj, shared |-> c.shared],
                       allow_list_keys)

(***************************************************************************)
(* Config._substitute_base_vars(cfg, base_var_dict, base_cfg).             *)
(*                                                                         *)
(* base_var_dict is a dict from token to dotted path.  A call returns      *)
(* [err, out, cfg]: the exception it raises, the value it returns and the  *)
(* object cfg of the caller as the call leaves it.                         *)
(***************************************************************************)
SubRet(err, out, cfg) == [err |-> err, out |-> out, cfg |-> cfg]

\* the local cfg is the caller's own object
deepcopy_alias(cfg) == [obj |-> cfg, shared |-> TRUE]

\* line 234, cfg = copy.deepcopy(cfg): the local cfg shares nothing with
\* the object of the caller
deepcopy_cfg(cfg) == [obj |-> cfg, shared |-> FALSE]

\* lines 241 and 258, new_v[new_k]: a mapping without the key raises
\* KeyError, a value that is not a mapping cannot be indexed by a string
base_getitem(new_v, new_k) ==
    IF IsDict(new_v)
    THEN IF HasKey(new_v, new_k)
         THEN [err |-> NoErr, val |-> GetItem(new_v, new_k)]
         ELSE [err |-> Raise("KeyError", "base_var", new_k), val |-> PyNone]
    ELSE [err |-> Raise("TypeError", "base_var", new_k), val |-> PyNone]

\* lines 240-241 and 257-258: the loop over the segments, from segment i on
RECURSIVE walk_base(_, _, _)
walk_base(new_v, segs, i) ==
    IF i > Len(segs) THEN [err |-> NoErr, val |-> new_v]
    ELSE LET g == base_getitem(new_v, segs[i])
         IN IF g.err # NoErr THEN g ELSE walk_base(g.val, segs, i + 1)

\* lines 239-241 and 256-258
resolve_base_var(path, base_cfg) == walk_base(base_cfg, SplitDots(path), 1)

\* v in base_var_dict, for a str v
IsToken(v, base_var_dict) == IsStr(v) /\ HasKey(base_var_dict, v.s)

\* cfg[k] = x for item i of the local cfg
SubStore(st, i, x) ==
    [st EXCEPT !.c = [st.c EXCEPT !.d[i].v = x],
               !.c0 = IF st.shared THEN [st.c EXCEPT !.d[i].v = x] ELSE st.c0]

RECURSIVE substitute_base_vars(_, _, _)
RECURSIVE subst_items(_, _, _, _)
RECURSIVE subst_elems(_, _, _, _)

\* lines 237-244: the loop over cfg.items(), from item i on
subst_items(i, st, base_var_dict, base_cfg) ==
    IF i > Len(st.c.d) THEN SubRet(NoErr, st.c, st.c0)
    ELSE LET v == st.c.d[i].v
         IN IF IsToken(v, base_var_dict)
            THEN LET w == resolve_base_var(GetItem(base_var_dict, v.s).s, base_cfg)
                 IN IF w.err # NoErr
                    THEN SubRet(w.err, PyNone, st.c0)
                    ELSE subst_items(i + 1, SubStore(st, i, w.val),
                                     base_var_dict, base_cfg)
            ELSE IF IsList(v) \/ IsTuple(v) \/ IsDict(v)
            THEN LET r == substitute_base_vars(v, base_var_dict, base_cfg)
                 IN IF r.err # NoErr
                    THEN SubRet(r.err, PyNone, SubStore(st, i, r.cfg).c0)
                    ELSE subst_items(i + 1, SubStore(SubStore(st, i, r.cfg), i, r.out),
                                     base_var_dict, base_cfg)
            ELSE subst_items(i + 1, st, base_var_dict, base_cfg)

\* lines 246-254: the elements of a tuple or list, from element i on; st.c
\* gathers the new elements
subst_elems(i, st, base_var_dict, base_cfg) ==
    IF i > Len(st.c0.l) THEN SubRet(NoErr, st.c, st.c0)
    ELSE LET r == substitute_base_vars(st.c0.l[i], base_var_dict, base_cfg)
             c0 == IF st.shared THEN [st.c0 EXCEPT !.l[i] = r.cfg] ELSE st.c0
         IN IF r.err # NoErr
            THEN SubRet(r.err, PyNone, c0)
            ELSE subst_elems(i + 1,
                             [st EXCEPT !.c = [st.c EXCEPT !.l = Append(st.c.l, r.out)],
                                        !.c0 = c0],
                             base_var_dict, base_cfg)

\* lines 231-260
substitute_base_vars(cfg, base_var_dict, base_cfg) ==
    LET c == deepcopy_cfg(cfg)
    IN IF IsDict(cfg)
       THEN subst_items(1, [c0 |-> cfg, c |-> c.obj, shared |-> c.shared],
                        base_var_dict, base_cfg)
       ELSE IF IsTuple(cfg)
       THEN subst_elems(1, [c0 |-> cfg, c |-> PyTuple(<<>>), shared |-> c.shared],
                        base_var_dict, base_cfg)
       ELSE IF IsList(cfg)
       THEN subst_elems(1, [c0 |-> cfg, c |-> PyList(<<>>), shared |-> c.shared],
                        base_var_dict, base_cfg)
       ELSE IF IsToken(cfg, base_var_dict)
       THEN LET w == resolve_base_var(GetItem(base_var_dict, cfg.s).s, base_cfg)
            IN SubRet(w.err, w.val, cfg)
       ELSE SubRet(NoErr, cfg, cfg)

(***************************************************************************)
(* Config._file2dict(filename).                                            *)
(*                                                                         *)
(* A config file is [text, dict, vars]: its text, the mapping the import   *)
(* of the substituted text gives (lines 344-352) and the base_var_dict     *)
(* that _pre_substitute_base_vars returns for it (line 336).  Paths are     *)
(* absolute and normalised, so that osp.abspath leaves them as they are.   *)
(*                                                                         *)
(* Each call in progress is a frame of the stack, with its position pc:    *)
(*   "enter" lines 316-381, "base" lines 383-390, "loop" lines 391-394,    *)
(*   "check" lines 400-406 (taken when the loop is over), "merge" lines    *)
(*   409-417.                                                              *)
(* An exception is caught nowhere: it ends every call in progress.         *)
(***************************************************************************)
File(text, dict, bvars) == [text |-> text, dict |-> dict, vars |-> bvars]

\* the position of the last '/' of the path p, 0 when it has none
LastSlash(p) ==
    IF \E i \in 1..Len(p) : CharAt(p, i) = "/"
    THEN CHOOSE i \in 1..Len(p) :
            CharAt(p, i) = "/" /\ \A j \in (i + 1)..Len(p) : CharAt(p, j) # "/"
    ELSE 0
\* osp.dirname(p)
dirname(p) ==
    IF LastSlash(p) <= 1 THEN SubSeq(p, 1, LastSlash(p))
    ELSE SubSeq(p, 1, LastSlash(p) - 1)
\* osp.basename(p)
basename(p) == SubSeq(p, LastSlash(p) + 1, Len(p))
\* osp.splitext(p)[1]: from the last dot of the base name, a leading dot
\* apart
splitext(p) ==
    LET b == basename(p)
    IN IF \E i \in 2..Len(b) : CharAt(b, i) = "."
       THEN LET q == CHOOSE i \in 2..Len(b) :
                       CharAt(b, i) = "." /\ \A j \in (i + 1)..Len(b) : CharAt(b, j) # "."
            IN SubSeq(b, q, Len(b))
       ELSE ""
\* p.endswith(suffix)
endswith(p, suffix) ==
    Len(p) >= Len(suffix) /\ SubSeq(p, Len(p) - Len(suffix) + 1, Len(p)) = suffix
\* osp.join(d, f)
join(d, f) ==
    IF Len(f) > 0 /\ CharAt(f, 1) = "/" THEN f
    ELSE IF d = "" \/ endswith(d, "/") THEN d \o f
    ELSE d \o "/" \o f
\* '\n'.join(texts)
RECURSIVE join_lines(_)
join_lines(texts) ==
    IF Len(texts) = 0 THEN ""
    ELSE IF Len(texts) = 1 THEN texts[1]
    ELSE texts[1] \o "\n" \o join_lines(Tail(texts))

\* lines 386-387: a list of names stays, anything else becomes a list of one
base_filename_list(v) ==
    IF IsList(v) THEN [i \in 1..Len(v.l) |-> v.l[i].s] ELSE <<v.s>>

\* the frame of a new call
Frame(filename) ==
    [filename |-> filename, pc |-> "enter",
     cfg_dict |-> PyNone, cfg_text |-> "", base_var_dict |-> PyDict(<<>>),
     base_filename |-> <<>>, cfg_dict_list |-> <<>>, cfg_text_list |-> <<>>,
     base_cfg_dict |-> PyDict(<<>>), duplicate_keys |-> {}]
NoFrame == Frame("")
NoFiles == [p \in {} |-> File("", PyNone, PyNone)]
LoadRet(err, cfg_dict, cfg_text, frame) ==
    [err |-> err, cfg_dict |-> cfg_dict, cfg_text |-> cfg_text, frame |-> frame]
NoRet == LoadRet(NoErr, PyNone, "", NoFrame)

Top == stack[Len(stack)]
Callers == SubSeq(stack, 1, Len(stack) - 1)

\* an exception leaves the frame fr: it ends every call in progress
F2D_Raise(fr, err) ==
    /\ stack' = <<>>
    /\ ret' = LoadRet(err, PyNone, "", fr)
    /\ op' = "loaded"

\* line 417, return cfg_dict, cfg_text: lines 392-394 of the caller append
\* them to its lists
F2D_Return(fr, cfg_dict, cfg_text) ==
    /\ ret' = LoadRet(NoErr, cfg_dict, cfg_text, fr)
    /\ IF Len(stack) = 1
       THEN stack' = <<>> /\ op' = "loaded"
       ELSE /\ stack' = [Callers EXCEPT
                           ![Len(stack) - 1].cfg_dict_list = Append(@, cfg_dict),
                           ![Len(stack) - 1].cfg_text_list = Append(@, cfg_text)]
            /\ op' = "load"

\* line 367-368: the deprecation metadata is popped
pop_deprecation(cfg_dict) ==
    IF HasKey(cfg_dict, DEPRECATION_KEY) THEN DelItem(cfg_dict, DEPRECATION_KEY)
    ELSE cfg_dict

\* line 383: `BASE_KEY in cfg_text`, cfg_text being the path, a newline and
\* the text of the file
has_base(cfg_dict, cfg_text) == Contains(cfg_text, BASE_KEY)

\* line 406, base_cfg_dict.update(c), from item i of c on
RECURSIVE dict_update(_, _, _)
dict_update(b, c, i) ==
    IF i > Len(c.d) THEN b
    ELSE dict_update(SetItem(b, c.d[i].k, c.d[i].v), c, i + 1)

\* the bases are gathered without the check for duplicate keys
RECURSIVE gather_unchecked(_, _, _)
gather_unchecked(cfg_dict_list, i, base_cfg_dict) ==
    IF i > Len(cfg_dict_list)
    THEN [duplicate_keys |-> {}, base_cfg_dict |-> base_cfg_dict]
    ELSE gather_unchecked(cfg_dict_list, i + 1,
                          dict_update(base_cfg_dict, cfg_dict_list[i], 1))

\* lines 400-406: the mappings of the bases, gathered in order; the first
\* one that shares a key with those before it raises.  Gives the keys found
\* duplicate ({} when none) and the mapping gathered.
RECURSIVE gather_bases(_, _, _)
gather_bases(cfg_dict_list, i, base_cfg_dict) ==
    IF i > Len(cfg_dict_list)
    THEN [duplicate_keys |-> {}, base_cfg_dict |-> base_cfg_dict]
    ELSE LET c == cfg_dict_list[i]
             duplicate_keys == KeysOf(base_cfg_dict) \cap KeysOf(c)
         IN IF Cardinality(duplicate_keys) > 0
            THEN [duplicate_keys |-> duplicate_keys, base_cfg_dict |-> base_cfg_dict]
            ELSE gather_bases(cfg_dict_list, i + 1, dict_update(base_cfg_dict, c, 1))

(***************************************************************************)
(* The arguments the merge is called with.                                 *)
(***************************************************************************)
\* ints 0..MaxInt; 0 is the false one
IntVals == {PyInt(i) : i \in 0..MaxInt}
\* lists and tuples of at most MaxLen elements
SeqsOf(S) == UNION {[1..n -> S] : n \in 0..MaxLen}
\* mappings of one item and of two items with different keys
Dicts1(KS, VS) == {PyDict(<<Item(k, v)>>) : k \in KS, v \in VS}
Dicts2(KS, VS, LS, WS) ==
    {PyDict(<<Item(k, v), Item(j, w)>>) : k \in KS, v \in VS, j \in LS, w \in WS}
DistinctKeys(v) == Cardinality(KeysOf(v)) = Len(v.d)

\* the mappings nested in a
AInner ==
    {PyDict(<<>>)}
    \cup Dicts1({"x"}, IntVals)
    \cup Dicts1({DELETE_KEY}, {PyBool(TRUE), PyBool(FALSE)})
    \cup Dicts2({DELETE_KEY}, {PyBool(TRUE), PyBool(FALSE)}, {"x"}, {PyInt(MaxInt)})
    \cup Dicts2({"x"}, {PyInt(MaxInt)}, {DELETE_KEY}, {PyBool(TRUE)})
    \cup Dicts1({"x", "", "0"}, {PyDict(<<Item("y", PyInt(MaxInt))>>),
                                 PyDict(<<Item(DELETE_KEY, PyBool(TRUE)),
                                          Item("y", PyInt(MaxInt))>>)})
\* the values of a
AVals == AInner \cup {PyInt(MaxInt), PyList(<<PyInt(MaxInt)>>)}
\* the source mappings a
MergeA ==
    {PyDict(<<>>)}
    \cup Dicts1({"", "k", "0", "1", "2", "3"}, AVals)
    \cup {d \in Dicts2({"k", "j"}, AVals, {"k", "j"},
                       {PyInt(1), PyDict(<<Item("x", PyInt(1))>>)}) : DistinctKeys(d)}

\* the mappings nested in b
BInner ==
    {PyDict(<<>>),
     PyDict(<<Item("x", PyInt(1)), Item("y", PyInt(MaxInt))>>),
     PyDict(<<Item("x", PyDict(<<Item("y", PyInt(1)), Item("z", PyInt(1))>>))>>)}
\* the values of b
BVals ==
    BInner \cup IntVals
    \cup {PyNone, PyBool(FALSE), PyStr(""), PyList(<<>>), PyList(<<PyInt(1), PyInt(2)>>),
          PyList(<<PyDict(<<Item("y", PyInt(1)), Item("z", PyInt(1))>>)>>),
          PyTuple(<<PyInt(1)>>)}
\* the elements of a list b
BElems ==
    {PyDict(<<Item("x", PyInt(1))>>), PyDict(<<Item("y", PyInt(1))>>),
     PyInt(1), PyTuple(<<PyInt(1)>>)}
\* the destinations b
MergeB ==
    {PyDict(<<>>)}
    \cup Dicts1({"", "k", "j"}, BVals)
    \cup {d \in Dicts2({"", "k", "j"}, BVals, {"k", "j"}, {PyInt(1), PyDict(<<>>)}) :
            DistinctKeys(d)}
    \cup {PyList(e) : e \in SeqsOf(BElems)}

(***************************************************************************)
(* The arguments the substitution is called with.                          *)
(***************************************************************************)
\* tokens as _pre_substitute_base_vars makes them: _<path>_<6 hex digits>
Token1 == "_H_0a1b2c"
Token2 == "_m.x_3d4e5f"
\* dotted paths: some resolve in SubstBase, the others stop at a missing key
\* or at a value that is not a mapping
SubstPaths == {"H", "m.x", "m", "Z", "H.x", "m.z", "s.x", "L.0", "m..x"}
SubstBase ==
    PyDict(<<Item("H", PyInt(MaxInt)),
             Item("m", PyDict(<<Item("x", PyInt(1)), Item("t", PyStr(Token1))>>)),
             Item("s", PyStr("v")),
             Item("L", PyList(<<PyInt(1)>>))>>)
SubstBases == {SubstBase, PyDict(<<>>)}
SubstDicts ==
    {PyDict(<<>>)}
    \cup {PyDict(<<Item(Token1, PyStr(p))>>) : p \in SubstPaths}
    \cup {PyDict(<<Item(Token1, PyStr(p)), Item(Token2, PyStr(q))>>) :
            p \in {"H", "Z"}, q \in {"m.x", "m", "H.x"}}

SubstLeaves == {PyStr(Token1), PyStr(Token2), PyStr("plain"), PyInt(1)}
SubstInner ==
    {PyList(e) : e \in SeqsOf(SubstLeaves)}
    \cup {PyTuple(e) : e \in SeqsOf(SubstLeaves)}
    \cup Dicts1({"a"}, SubstLeaves)
    \cup Dicts2({"a"}, SubstLeaves, {"b", Token1}, {PyStr(Token1), PyInt(1)})
SubstMid ==
    {PyList(<<d>>) : d \in Dicts1({"a"}, SubstLeaves)}
    \cup {PyTuple(<<d, PyStr(Token2)>>) : d \in Dicts1({"a"}, SubstLeaves)}
    \cup {ConfigDict(d) : d \in Dicts1({"a"}, {PyTuple(<<PyStr(Token1)>>),
                                               PyList(<<PyTuple(<<PyStr(Token2)>>)>>)})}
SubstCfgs ==
    SubstLeaves \cup SubstInner \cup SubstMid
    \cup Dicts1({"k"}, SubstLeaves \cup SubstInner \cup SubstMid)

(***************************************************************************)
(* The config files the loader is called on.  The text of a file and the   *)
(* mapping it loads to go together: the placeholders {{_base_.path}} of    *)
(* the text are tokens in the mapping, by the file's base_var_dict.        *)
(***************************************************************************)
NoVars == PyDict(<<>>)
ChildFiles ==
    {File("_base_ = ['b1.py', 'b2.py']\nx = 1",
          PyDict(<<Item(BASE_KEY, PyList(<<PyStr("b1.py"), PyStr("b2.py")>>)),
                   Item("x", PyInt(1))>>), NoVars),
     File("_base_ = ['b1.py', 'b2.py', 'b3.py']",
          PyDict(<<Item(BASE_KEY, PyList(<<PyStr("b1.py"), PyStr("b2.py"),
                                          PyStr("b3.py")>>))>>), NoVars),
     File("_base_ = 'b1.py'\nh = {{_base_.H}}",
          PyDict(<<Item(BASE_KEY, PyStr("b1.py")), Item("h", PyStr(Token1))>>),
          PyDict(<<Item(Token1, PyStr("H"))>>)),
     File("_base_ = 'b1.py'\nh = {{ _base_.H.x }}",
          PyDict(<<Item(BASE_KEY, PyStr("b1.py")), Item("h", PyStr(Token1))>>),
          PyDict(<<Item(Token1, PyStr("H.x"))>>)),
     File("_base_ = ['b1.py']\nm = dict(x=2)",
          PyDict(<<Item(BASE_KEY, PyList(<<PyStr("b1.py")>>)),
                   Item("m", PyDict(<<Item("x", PyInt(2))>>))>>), NoVars),
     File("_base_ = ['c.py']\nx = 1",
          PyDict(<<Item(BASE_KEY, PyList(<<PyStr("c.py")>>)), Item("x", PyInt(1))>>),
          NoVars),
     File("x = 1", PyDict(<<Item("x", PyInt(1))>>), NoVars),
     File("# no _base_ here\nx = 1", PyDict(<<Item("x", PyInt(1))>>), NoVars),
     File("filename = 'f'\nx = 1",
          PyDict(<<Item("filename", PyStr("f")), Item("x", PyInt(1))>>), NoVars),
     File("_base_ = ['b1.py', 'b2.py']\ntext = 1",
          PyDict(<<Item(BASE_KEY, PyList(<<PyStr("b1.py"), PyStr("b2.py")>>)),
                   Item("text", PyInt(1))>>), NoVars),
     File("_deprecation_ = dict(expected='n.py')\nx = 1",
          PyDict(<<Item(DEPRECATION_KEY, PyDict(<<Item("expected", PyStr("n.py"))>>)),
                   Item("x", PyInt(1))>>), NoVars)}
Base1Files ==
    {File("H = 2\nm = dict(x=1, y=1)",
          PyDict(<<Item("H", PyInt(2)),
                   Item("m", PyDict(<<Item("x", PyInt(1)), Item("y", PyInt(1))>>))>>),
          NoVars),
     File("shared = 1", PyDict(<<Item("shared", PyInt(1))>>), NoVars),
     File("_base_ = 'b2.py'\nH = 2",
          PyDict(<<Item(BASE_KEY, PyStr("b2.py")), Item("H", PyInt(2))>>), NoVars)}
Base2Files ==
    {File("W = 1", PyDict(<<Item("W", PyInt(1))>>), NoVars),
     File("shared = 2\nW = 1",
          PyDict(<<Item("shared", PyInt(2)), Item("W", PyInt(1))>>), NoVars),
     File("H = 1", PyDict(<<Item("H", PyInt(1))>>), NoVars)}
Base3Files ==
    {File("V = 1", PyDict(<<Item("V", PyInt(1))>>), NoVars),
     File("W = 3\nV = 1", PyDict(<<Item("W", PyInt(3)), Item("V", PyInt(1))>>), NoVars)}
\* the directories of the files: the second one is named _base_
Dirs == {"/w", "/w/_base_"}
EntryFiles == {join(d, "c.py") : d \in Dirs} \cup {"/w/c.json", "/w/c.txt"}
FilesIn(d, c, b1, b2, b3) ==
    (join(d, "c.py") :> c) @@ (join(d, "b1.py") :> b1) @@ (join(d, "b2.py") :> b2)
    @@ (join(d, "b3.py") :> b3)
FileSystems ==
    {FilesIn(d, c, b1, b2, b3) :
        d \in Dirs, c \in ChildFiles, b1 \in Base1Files, b2 \in Base2Files,
        b3 \in Base3Files}
    \cup {("/w/c.py" :> c) @@ ("/w/b1.py" :> b1) :
            c \in ChildFiles, b1 \in Base1Files}
    \cup {("/w/c.json" :> File("{}", PyDict(<<>>), NoVars))
          @@ ("/w/c.txt" :> File("x = 1", PyDict(<<Item("x", PyInt(1))>>), NoVars))}

(***************************************************************************)
(* State: the operation that ran last, its arguments and what it gave.     *)
(***************************************************************************)
NoMerge == MergeRet(NoErr, PyNone, PyNone, PyNone)
NoSubst == SubRet(NoErr, PyNone, PyNone)

InitMerge ==
    /\ arg_a = PyNone
    /\ arg_b = PyNone
    /\ allow = FALSE
    /\ res = NoMerge

InitSubst ==
    /\ sub_cfg = PyNone
    /\ sub_var_dict = PyDict(<<>>)
    /\ sub_base_cfg = PyDict(<<>>)
    /\ sres = NoSubst

InitLoad ==
    /\ fs = NoFiles
    /\ stack = <<>>
    /\ ret = NoRet

\* no Config object yet
NoDoc == [err |-> NoErr, out |-> PyNone]
InitDoc ==
    /\ entry = ""
    /\ heap = <<>>
    /\ docs = <<>>
    /\ built = <<>>
    /\ dres = NoDoc

NoPreIn == [text |-> "", order |-> <<>>, hex |-> <<>>]
NoPre == [config_file |-> "", base_var_dict |-> PyDict(<<>>)]
InitPre ==
    /\ pre_in = NoPreIn
    /\ pres = NoPre

Init ==
    /\ op = "idle"
    /\ InitMerge
    /\ InitSubst
    /\ InitLoad
    /\ InitDoc
    /\ InitPre

\* a call Config._merge_a_into_b(a, b, allow_list_keys)
CallMerge ==
    /\ op = "idle"
    /\ \E a \in MergeA, b \in MergeB, al \in BOOLEAN :
         /\ arg_a' = a
         /\ arg_b' = b
         /\ allow' = al
         /\ res' = merge_a_into_b(a, b, al)
    /\ op' = "merge"
    /\ UNCHANGED <<subst_vars, load_vars, doc_vars, pre_vars>>

\* a call Config._substitute_base_vars(cfg, base_var_dict, base_cfg)
CallSubst ==
    /\ op = "idle"
    /\ \E c \in SubstCfgs, d \in SubstDicts, b \in SubstBases :
         /\ sub_cfg' = c
         /\ sub_var_dict' = d
         /\ sub_base_cfg' = b
         /\ sres' = substitute_base_vars(c, d, b)
    /\ op' = "subst"
    /\ UNCHANGED <<merge_vars, load_vars, doc_vars, pre_vars>>

\* the caller drops the arguments and the result
Done ==
    /\ op \in {"merge", "subst", "loaded", "doc", "pre"}
    /\ op' = "idle"
    /\ arg_a' = PyNone /\ arg_b' = PyNone /\ allow' = FALSE /\ res' = NoMerge
    /\ sub_cfg' = PyNone /\ sub_var_dict' = PyDict(<<>>)
    /\ sub_base_cfg' = PyDict(<<>>) /\ sres' = NoSubst
    /\ fs' = NoFiles /\ stack' = <<>> /\ ret' = NoRet
    /\ entry' = "" /\ heap' = <<>> /\ docs' = <<>> /\ built' = <<>>
    /\ dres' = NoDoc
    /\ pre_in' = NoPreIn /\ pres' = NoPre

\* a call Config._file2dict(filename) on the files f
StartLoad ==
    /\ op = "idle"
    /\ \E f \in FileSystems, filename \in EntryFiles :
         /\ fs' = f
         /\ stack' = <<Frame(filename)>>
         /\ entry' = filename
    /\ ret' = NoRet
    /\ op' = "load"
    /\ UNCHANGED <<merge_vars, subst_vars, heap, docs, built, dres, pre_vars>>

\* lines 316-381: the file is checked, loaded into cfg_dict and read into
\* cfg_text.  Line 343 opens temp_module_name, the random name of the
\* temporary module without directory or suffix, in the working directory,
\* and parses what it finds: the outcome is not decided by the config files.
F2D_Enter ==
    /\ op = "load" /\ Top.pc = "enter"
    /\ LET filename == Top.filename
       IN IF filename \notin DOMAIN fs
          THEN F2D_Raise(Top, Raise("FileNotFoundError", "check_file_exist", filename))
          ELSE IF splitext(filename) \notin {".py", ".json", ".yaml", ".yml"}
          THEN F2D_Raise(Top, Raise("OSError", "extension", filename))
          ELSE IF ~endswith(filename, ".py")
          THEN F2D_Raise(Top, Raise("NotImplementedError", "load", filename))
          ELSE \E validated \in {"ok", "FileNotFoundError", "SyntaxError"} :
                 IF validated # "ok"
                 THEN F2D_Raise(Top, Raise(validated, "validate_py_syntax", filename))
                 ELSE /\ stack' = [stack EXCEPT
                            ![Len(stack)].pc = "base",
                            ![Len(stack)].base_var_dict = fs[filename].vars,
                            ![Len(stack)].cfg_dict = pop_deprecation(fs[filename].dict),
                            ![Len(stack)].cfg_text = filename \o "\n" \o fs[filename].text]
                      /\ UNCHANGED <<op, ret>>
    /\ UNCHANGED <<merge_vars, subst_vars, fs, doc_vars, pre_vars>>

\* lines 383-390: without base the call returns; with one, _base_ is popped
\* from cfg_dict and made a list of names
F2D_Base ==
    /\ op = "load" /\ Top.pc = "base"
    /\ IF ~has_base(Top.cfg_dict, Top.cfg_text)
       THEN F2D_Return(Top, Top.cfg_dict, Top.cfg_text)
       ELSE IF ~HasKey(Top.cfg_dict, BASE_KEY)
       THEN F2D_Raise(Top, Raise("KeyError", "pop_base", BASE_KEY))
       ELSE /\ stack' = [stack EXCEPT
                  ![Len(stack)].pc = "loop",
                  ![Len(stack)].base_filename =
                      base_filename_list(GetItem(Top.cfg_dict, BASE_KEY)),
                  ![Len(stack)].cfg_dict = DelItem(Top.cfg_dict, BASE_KEY)]
            /\ UNCHANGED <<op, ret>>
    /\ UNCHANGED <<merge_vars, subst_vars, fs, doc_vars, pre_vars>>

\* lines 391-392: the call for the next base file
F2D_Call ==
    /\ op = "load" /\ Top.pc = "loop"
    /\ Len(Top.cfg_dict_list) < Len(Top.base_filename)
    /\ Len(stack) < MaxDepth
    /\ stack' = Append(stack,
                       Frame(join(dirname(Top.filename),
                                  Top.base_filename[Len(Top.cfg_dict_list) + 1])))
    /\ UNCHANGED <<op, ret, merge_vars, subst_vars, fs, doc_vars, pre_vars>>

\* lines 400-406: the bases are gathered, a duplicate key raises
F2D_Check ==
    /\ op = "load" /\ Top.pc = "loop"
    /\ Len(Top.cfg_dict_list) = Len(Top.base_filename)
    /\ LET g == gather_bases(Top.cfg_dict_list, 1, PyDict(<<>>))
           fr == [Top EXCEPT !.duplicate_keys = g.duplicate_keys,
                             !.base_cfg_dict = g.base_cfg_dict]
       IN IF g.duplicate_keys # {}
          THEN F2D_Raise(fr, Raise("KeyError", "duplicate", ""))
          ELSE /\ stack' = [stack EXCEPT ![Len(stack)] = [fr EXCEPT !.pc = "merge"]]
               /\ UNCHANGED <<op, ret>>
    /\ UNCHANGED <<merge_vars, subst_vars, fs, doc_vars, pre_vars>>

\* lines 409-417: the tokens are replaced, the mapping is merged into the
\* bases, the texts are joined, and the call returns
F2D_Merge ==
    /\ op = "load" /\ Top.pc = "merge"
    /\ LET sub == substitute_base_vars(Top.cfg_dict, Top.base_var_dict,
                                       Top.base_cfg_dict)
           mrg == merge_a_into_b(sub.out, Top.base_cfg_dict, FALSE)
       IN IF sub.err # NoErr
          THEN F2D_Raise(Top, sub.err)
          ELSE IF mrg.err # NoErr
          THEN F2D_Raise([Top EXCEPT !.cfg_dict = mrg.a], mrg.err)
          ELSE F2D_Return([Top EXCEPT !.cfg_dict = mrg.a], mrg.out,
                          join_lines(Append(Top.cfg_text_list, Top.cfg_text)))
    /\ UNCHANGED <<merge_vars, subst_vars, fs, doc_vars, pre_vars>>

(***************************************************************************)
(* Config objects.  A Config holds _cfg_dict, a reference to a ConfigDict  *)
(* object of the heap, _filename and _text.  Two Config objects may refer  *)
(* to the same ConfigDict (__copy__).                                      *)
(***************************************************************************)
DocRet(err, out) == [err |-> err, out |-> out]
ConfigObj(cfg_dict, filename, text) ==
    [_cfg_dict |-> cfg_dict, _filename |-> filename, _text |-> text]
NoObj == ConfigObj(PyNone, PyNone, "")

\* line 460, `cfg_dict in None`: None supports no membership test, whatever
\* cfg_dict is
in_None(cfg_dict) == Raise("TypeError", "in_None", "")

\* lines 465-467: the first key of cfg_dict, from item i on, that is a
\* reserved one ("" when none is)
RECURSIVE reserved_key(_, _)
reserved_key(cfg_dict, i) ==
    IF i > Len(cfg_dict.d) THEN ""
    ELSE IF cfg_dict.d[i].k \in RESERVED_KEYS THEN cfg_dict.d[i].k
    ELSE reserved_key(cfg_dict, i + 1)

\* lines 475-481: the text given, else the text of the file, else ''
init_text(cfg_text, filename) ==
    IF Truthy(cfg_text) THEN DocRet(NoErr, cfg_text)
    ELSE IF Truthy(filename)
    THEN IF filename.s \in DOMAIN fs
         THEN DocRet(NoErr, PyStr(fs[filename.s].text))
         ELSE DocRet(Raise("FileNotFoundError", "open", filename.s), PyNone)
    ELSE DocRet(NoErr, PyStr(""))

\* Config.__init__(cfg_dict, cfg_text, filename): the error raised and the
\* object made
Config_init(cfg_dict, cfg_text, filename) ==
    IF in_None(cfg_dict) # NoErr
    THEN [err |-> in_None(cfg_dict), obj |-> NoObj]
    ELSE IF ~IsDict(cfg_dict)
    THEN [err |-> Raise("TypeError", "not_dict", ""), obj |-> NoObj]
    ELSE IF reserved_key(cfg_dict, 1) # ""
    THEN [err |-> Raise("KeyError", "reserved", reserved_key(cfg_dict, 1)),
          obj |-> NoObj]
    ELSE IF init_text(cfg_text, filename).err # NoErr
    THEN [err |-> init_text(cfg_text, filename).err,
          obj |-> ConfigObj(ConfigDict(cfg_dict), filename, "")]
    ELSE [err |-> NoErr,
          obj |-> ConfigObj(ConfigDict(cfg_dict), filename,
                            init_text(cfg_text, filename).out.s)]

\* a new Config object o, on a new ConfigDict object
NewDoc(o) ==
    /\ heap' = Append(heap, o._cfg_dict)
    /\ docs' = Append(docs, [o EXCEPT !._cfg_dict = Len(heap) + 1])
    /\ built' = Append(built, o)

\* lines 427-429 of fromfile, after the call of _file2dict at line 425 has
\* returned: the mapping has no custom_imports, and Config(cfg_dict,
\* cfg_text=cfg_text, filename=filename) is made
FromFile ==
    /\ op = "loaded"
    /\ ret.err = NoErr
    /\ ~HasKey(ret.cfg_dict, "custom_imports")
    /\ LET c == Config_init(ret.cfg_dict, PyStr(ret.cfg_text), PyStr(entry))
       IN /\ dres' = DocRet(c.err, PyNone)
          /\ IF c.err = NoErr THEN NewDoc(c.obj)
             ELSE UNCHANGED <<heap, docs, built>>
    /\ op' = "doc"
    /\ UNCHANGED <<merge_vars, subst_vars, load_vars, entry, pre_vars>>

\* the attributes of the class ConfigDict, methods of dict among them, that
\* an assignment may not replace
ClassAttrs == {"items", "keys", "copy", "to_dict"}
\* the names and the values of the operations on a Config
DocNames == {"a", "items"}
ReadNames == {"a", "b", "filename", "text"}
DocValues == {PyInt(MaxInt), PyDict(<<Item("x", PyInt(1))>>)}
\* the states __setstate__ is given: (_cfg_dict, _filename, _text)
DocStates ==
    {ConfigObj(ConfigDict(d), f[1], f[2]) :
        d \in {PyDict(<<>>), PyDict(<<Item("a", PyInt(1))>>)},
        f \in {<<PyNone, "">>, <<PyStr("/w/c.py"), "/w/c.py\na = 1">>}}
\* the ConfigDict object that the Config object i refers to
CfgDictOf(i) == heap[docs[i]._cfg_dict]

\* a call Config(cfg_dict, cfg_text, filename)
NewConfig ==
    /\ op = "idle"
    /\ \E cfg_dict \in {PyNone, PyInt(1), PyDict(<<Item("a", PyInt(1))>>),
                        PyDict(<<Item("text", PyInt(1))>>)},
          cfg_text \in {PyNone, PyStr("a = 1")} :
         LET c == Config_init(cfg_dict, cfg_text, PyNone)
         IN /\ dres' = DocRet(c.err, PyNone)
            /\ IF c.err = NoErr THEN NewDoc(c.obj)
               ELSE UNCHANGED <<heap, docs, built>>
    /\ op' = "doc"
    /\ UNCHANGED <<merge_vars, subst_vars, load_vars, entry, pre_vars>>

\* lines 624-628, __setstate__ on Config.__new__(Config), as unpickling does:
\* the three attributes are set from the state
SetState ==
    /\ op \in {"idle", "doc"}
    /\ Len(docs) < MaxDocs
    /\ \E state \in DocStates : NewDoc(state)
    /\ dres' = DocRet(NoErr, PyNone)
    /\ op' = "doc"
    /\ UNCHANGED <<merge_vars, subst_vars, load_vars, entry, pre_vars>>

\* lines 486-491 and 591-592, an attribute read: filename and text are
\* properties, any other name is looked up in _cfg_dict, where a missing key
\* is an AttributeError (lines 96-109)
GetAttr ==
    /\ op = "doc"
    /\ \E i \in 1..Len(docs), item \in ReadNames :
         dres' = CASE item = "filename" -> DocRet(NoErr, docs[i]._filename)
                   [] item = "text" -> DocRet(NoErr, PyStr(docs[i]._text))
                   [] HasKey(CfgDictOf(i), item) ->
                        DocRet(NoErr, GetItem(CfgDictOf(i), item))
                   [] OTHER -> DocRet(Raise("AttributeError", "getattr", item), PyNone)
    /\ UNCHANGED <<op, merge_vars, subst_vars, load_vars, entry, heap, docs, built,
                   pre_vars>>

\* an item read on a mapping without __missing__ (lines 96-97): the read of
\* a missing key stores an empty mapping under it and gives that
GetItemOp_create ==
    /\ op = "doc"
    /\ \E i \in 1..Len(docs), item \in ReadNames :
         IF HasKey(CfgDictOf(i), item)
         THEN /\ dres' = DocRet(NoErr, GetItem(CfgDictOf(i), item))
              /\ heap' = heap
         ELSE /\ dres' = DocRet(NoErr, ConfigDict(PyDict(<<>>)))
              /\ heap' = [heap EXCEPT ![docs[i]._cfg_dict] =
                                        SetItem(@, item, ConfigDict(PyDict(<<>>)))]
    /\ UNCHANGED <<op, merge_vars, subst_vars, load_vars, entry, docs, built, pre_vars>>

\* lines 594-595, an item read: a missing key is a KeyError (lines 96-97)
GetItemOp ==
    /\ op = "doc"
    /\ \E i \in 1..Len(docs), item \in ReadNames :
         dres' = IF HasKey(CfgDictOf(i), item)
                 THEN DocRet(NoErr, GetItem(CfgDictOf(i), item))
                 ELSE DocRet(Raise("KeyError", "missing", item), PyNone)
    /\ UNCHANGED <<op, merge_vars, subst_vars, load_vars, entry, heap, docs, built,
                   pre_vars>>

\* lines 597-600, an attribute assignment: a dict value is made a ConfigDict,
\* and the name is set on _cfg_dict, which stores it as an item unless it is
\* an attribute of the class
SetAttr ==
    /\ op = "doc"
    /\ \E i \in 1..Len(docs), name \in DocNames, value \in DocValues :
         LET v == IF IsDict(value) THEN ConfigDict(value) ELSE value
         IN IF name \in ClassAttrs
            THEN /\ dres' = DocRet(Raise("AttributeError", "read_only", name), PyNone)
                 /\ heap' = heap
            ELSE /\ dres' = DocRet(NoErr, PyNone)
                 /\ heap' = [heap EXCEPT ![docs[i]._cfg_dict] = SetItem(@, name, v)]
    /\ UNCHANGED <<op, merge_vars, subst_vars, load_vars, entry, docs, built, pre_vars>>

\* lines 588-589, len(cfg)
LenOp ==
    /\ op = "doc"
    /\ \E i \in 1..Len(docs) : dres' = DocRet(NoErr, PyInt(Len(CfgDictOf(i).d)))
    /\ UNCHANGED <<op, merge_vars, subst_vars, load_vars, entry, heap, docs, built,
                   pre_vars>>

\* lines 602-603, iteration: the keys, in the order of the items
IterOp ==
    /\ op = "doc"
    /\ \E i \in 1..Len(docs) :
         dres' = DocRet(NoErr, PyList([n \in 1..Len(CfgDictOf(i).d) |->
                                          PyStr(CfgDictOf(i).d[n].k)]))
    /\ UNCHANGED <<op, merge_vars, subst_vars, load_vars, entry, heap, docs, built,
                   pre_vars>>

\* lines 608-612, copy.copy(cfg): the new object takes the attributes of the
\* old one, the same ConfigDict object among them
CopyOp ==
    /\ op = "doc"
    /\ Len(docs) < MaxDocs
    /\ \E i \in 1..Len(docs) :
         /\ docs' = Append(docs, docs[i])
         /\ built' = Append(built, [docs[i] EXCEPT !._cfg_dict = CfgDictOf(i)])
    /\ dres' = DocRet(NoErr, PyNone)
    /\ UNCHANGED <<op, merge_vars, subst_vars, load_vars, entry, heap, pre_vars>>

\* lines 614-622, copy.deepcopy(cfg): the new object takes deep copies of
\* the attributes of the old one
DeepCopyOp ==
    /\ op = "doc"
    /\ Len(docs) < MaxDocs
    /\ \E i \in 1..Len(docs) :
         NewDoc([docs[i] EXCEPT !._cfg_dict = CfgDictOf(i)])
    /\ dres' = DocRet(NoErr, PyNone)
    /\ UNCHANGED <<op, merge_vars, subst_vars, load_vars, entry, pre_vars>>

(***************************************************************************)
(* Config._pre_substitute_base_vars(filename, temp_config_name): the text  *)
(* read from filename, the text written to temp_config_name and the        *)
(* base_var_dict returned.  The regular expressions are matched as re      *)
(* matches them: from left to right, at the first position that matches,   *)
(* matches not overlapping.                                                *)
(***************************************************************************)
\* \w, for ASCII text
WordChars ==
    {"a", "b", "c", "d", "e", "f", "g", "h", "x", "y", "_",
     "0", "1", "2", "3", "4", "5", "6", "7", "8", "9"}
\* \s
SpaceChars == {" ", "\t", "\n"}
\* the literal lit stands at position i of text
LitAt(text, i, lit) ==
    i + Len(lit) - 1 <= Len(text) /\ SubSeq(text, i, i + Len(lit) - 1) = lit
\* \s* from position i: the position after the white space
RECURSIVE skip_space(_, _)
skip_space(text, i) ==
    IF i <= Len(text) /\ CharAt(text, i) \in SpaceChars THEN skip_space(text, i + 1)
    ELSE i
\* [\w\.]+ from position i: the position after the longest run
RECURSIVE skip_path(_, _)
skip_path(text, i) ==
    IF i <= Len(text) /\ CharAt(text, i) \in WordChars \cup {"."}
    THEN skip_path(text, i + 1)
    ELSE i

\* line 210, \{\{\s*_base_\.([\w\.]+)\s*\}\} at position i: whether it
\* matches, the group and the position after the match.  A shorter run of
\* the group is followed by a character of the group, which neither \s nor
\* \} matches, so that only the longest run can match.
match_placeholder(text, i) ==
    LET j2 == skip_space(text, i + 2)
        j3 == j2 + Len(BASE_KEY) + 1
        j4 == skip_path(text, j3)
        j5 == skip_space(text, j4)
    IN [ok |-> /\ LitAt(text, i, "{{")
               /\ LitAt(text, j2, BASE_KEY \o ".")
               /\ j4 > j3
               /\ LitAt(text, j5, "}}"),
        group |-> SubSeq(text, j3, j4 - 1),
        end |-> j5 + 2]

\* line 211, re.findall(regexp, config_file), from position i on
RECURSIVE findall(_, _)
findall(text, i) ==
    IF i > Len(text) THEN <<>>
    ELSE IF match_placeholder(text, i).ok
    THEN <<match_placeholder(text, i).group>>
         \o findall(text, match_placeholder(text, i).end)
    ELSE findall(text, i + 1)

\* line 219, \{\{\s*_base_\. + base_var + \s*\}\} at position i: base_var is
\* put in the expression as it is, so that each of its dots matches any
\* character but a newline
match_base_var(text, i, base_var) ==
    LET j2 == skip_space(text, i + 2)
        j3 == j2 + Len(BASE_KEY) + 1
        j4 == j3 + Len(base_var)
        j5 == skip_space(text, j4)
    IN [ok |-> /\ LitAt(text, i, "{{")
               /\ LitAt(text, j2, BASE_KEY \o ".")
               /\ j4 - 1 <= Len(text)
               /\ \A n \in 1..Len(base_var) :
                    IF CharAt(base_var, n) = "."
                    THEN CharAt(text, j3 + n - 1) # "\n"
                    ELSE CharAt(text, j3 + n - 1) = CharAt(base_var, n)
               /\ LitAt(text, j5, "}}"),
        end |-> j5 + 2]

\* line 220, re.sub(regexp, repl, config_file), from position i on
RECURSIVE re_sub(_, _, _, _)
re_sub(text, i, base_var, repl) ==
    IF i > Len(text) THEN ""
    ELSE IF match_base_var(text, i, base_var).ok
    THEN repl \o re_sub(text, match_base_var(text, i, base_var).end, base_var, repl)
    ELSE CharAt(text, i) \o re_sub(text, i + 1, base_var, repl)

\* line 217: _<base_var>_<the first six hex digits of a random uuid>
randstr(base_var, hex) == "_" \o base_var \o "_" \o hex

\* lines 216-220, the loop over the set base_vars, taken in the order
\* `order`, from its element n on; hex[n] are the random digits of element n
RECURSIVE pre_loop(_, _, _, _, _)
pre_loop(order, hex, n, base_var_dict, config_file) ==
    IF n > Len(order)
    THEN [config_file |-> config_file, base_var_dict |-> base_var_dict]
    ELSE pre_loop(order, hex, n + 1,
                  SetItem(base_var_dict, randstr(order[n], hex[n]), PyStr(order[n])),
                  re_sub(config_file, 1, order[n],
                         "\"" \o randstr(order[n], hex[n]) \o "\""))

\* line 211: the set of the groups found
base_vars(config_file) ==
    {findall(config_file, 1)[i] : i \in 1..Len(findall(config_file, 1))}

pre_substitute_base_vars(config_file, order, hex) ==
    pre_loop(order, hex, 1, PyDict(<<>>), config_file)

\* the orders a set may be iterated in
OrdersOf(S) ==
    {o \in [1..Cardinality(S) -> S] : \A i, j \in 1..Cardinality(S) : o[i] = o[j] => i = j}
\* six hex digits of a uuid
HexVals == {"0a1b2c", "3d4e5f"}
\* the texts of the config files: two lines, each with a placeholder or
\* without one
PrePaths == {"a", "a.b", "a_b", "b"}
PrePieces ==
    {"{{_base_." \o p \o "}}" : p \in PrePaths}
    \cup {"{{ _base_." \o p \o " }}" : p \in PrePaths}
    \cup {"{{\t_base_.a.b\t}}", "1", "'_base_.a'", "{{ fileDirname }}",
          "{{_base_ .a}}", "{{_base_.}}"}
PreTexts == {"g = " \o p \o "\nh = " \o q : p, q \in PrePieces}

\* a call Config._pre_substitute_base_vars on a file with the text `text`
CallPre ==
    /\ op = "idle"
    /\ \E text \in PreTexts :
         \E order \in OrdersOf(base_vars(text)) :
            \E hex \in [1..Len(order) -> HexVals] :
               /\ pre_in' = [text |-> text, order |-> order, hex |-> hex]
               /\ pres' = pre_substitute_base_vars(text, order, hex)
    /\ op' = "pre"
    /\ UNCHANGED <<merge_vars, subst_vars, load_vars, doc_vars>>

NextMerge == CallMerge \/ Done

SpecMerge == Init /\ [][NextMerge]_vars

NextSubst == CallSubst \/ Done

SpecSubst == Init /\ [][NextSubst]_vars

NextLoad ==
    \/ StartLoad \/ F2D_Enter \/ F2D_Base \/ F2D_Call \/ F2D_Check \/ F2D_Merge
    \/ FromFile \/ Done

SpecLoad == Init /\ [][NextLoad]_vars

NextDoc ==
    \/ NewConfig \/ SetState \/ GetAttr \/ GetItemOp \/ SetAttr \/ LenOp \/ IterOp
    \/ CopyOp \/ DeepCopyOp \/ Done

SpecDoc == Init /\ [][NextDoc]_vars

NextPre == CallPre \/ Done

SpecPre == Init /\ [][NextPre]_vars

(***************************************************************************)
(* Properties of Config._merge_a_into_b.                                   *)
(***************************************************************************)
\* a call merge(a, b) of a mapping a with the one key k into a mapping b
OneKeyMerge == op = "merge" /\ IsDict(arg_a) /\ Len(arg_a.d) = 1 /\ IsDict(arg_b)
TheKey == arg_a.d[1].k
TheVal == arg_a.d[1].v
\* v carries a true _delete_ flag
DeleteSet(v) == HasKey(v, DELETE_KEY) /\ Truthy(GetItem(v, DELETE_KEY))
Returned == res.err = NoErr

\* C1: when a[k] is a mapping (without the reserved flag) and k is absent
\* from b, the merge with allow_list_keys off returns, the result maps k to
\* a[k] and holds the keys of b plus k - for every b, empty or not.
C1_AbsentKeyOverride ==
    (OneKeyMerge /\ ~allow /\ IsDict(TheVal) /\ ~HasKey(TheVal, DELETE_KEY)
       /\ ~HasKey(arg_b, TheKey))
    => /\ Returned
       /\ KeysOf(res.out) = KeysOf(arg_b) \cup {TheKey}
       /\ PyEq(GetItem(res.out, TheKey), TheVal)

\* C2: when a[k] is a mapping with _delete_ = true, the merge returns and the
\* value at k is a[k] without the _delete_ key, for every mapping b.
C2_DeleteConsumed ==
    (OneKeyMerge /\ ~allow /\ IsDict(TheVal) /\ DeleteSet(TheVal))
    => /\ Returned
       /\ HasKey(res.out, TheKey)
       /\ PyEq(GetItem(res.out, TheKey), DelItem(TheVal, DELETE_KEY))

\* o is the recursive merge of the mapping v into the mapping w: the keys of
\* w that v lacks keep the value of w, the keys of v take the value of v,
\* and a mapping of v over a mapping of w is merged the same way
RECURSIVE IsMergeOf(_, _, _)
IsMergeOf(v, w, o) ==
    /\ IsDict(o)
    /\ KeysOf(o) = KeysOf(w) \cup (KeysOf(v) \ {DELETE_KEY})
    /\ \A j \in KeysOf(w) \ KeysOf(v) : GetItem(o, j) = GetItem(w, j)
    /\ \A j \in KeysOf(v) \ {DELETE_KEY} :
         LET x == GetItem(v, j)
         IN IF ~IsDict(x) THEN GetItem(o, j) = x
            ELSE IF HasKey(w, j) /\ IsDict(GetItem(w, j)) /\ ~DeleteSet(x)
            THEN IsMergeOf(x, GetItem(w, j), GetItem(o, j))
            ELSE IsDict(GetItem(o, j))

\* no mapping of v stands over a non-empty value of w that is not a mapping:
\* the one case in which the recursive merge of v into w is to fail
RECURSIVE Compatible(_, _)
Compatible(v, w) ==
    \A j \in KeysOf(v) \cap KeysOf(w) :
        (IsDict(GetItem(v, j)) /\ ~DeleteSet(GetItem(v, j)) /\ Truthy(GetItem(w, j)))
        => /\ IsDict(GetItem(w, j))
           /\ Compatible(GetItem(v, j), GetItem(w, j))

\* C3: when a[k] and b[k] are both mappings and a[k] has no true _delete_
\* flag, the merge gives at k the recursive merge of a[k] into b[k], at every
\* depth (unless a mapping nested in a[k] meets a value of b[k] that is not a
\* mapping).
C3_RecursiveMerge ==
    (OneKeyMerge /\ ~allow /\ IsDict(TheVal) /\ ~DeleteSet(TheVal)
       /\ HasKey(arg_b, TheKey) /\ IsDict(GetItem(arg_b, TheKey))
       /\ Compatible(TheVal, GetItem(arg_b, TheKey)))
    => /\ Returned
       /\ HasKey(res.out, TheKey)
       /\ IsMergeOf(TheVal, GetItem(arg_b, TheKey), GetItem(res.out, TheKey))

\* C4: when a[k] is a mapping without a true _delete_ flag and b[k] exists, is
\* not empty and is not a mapping: with allow_list_keys off the merge raises
\* the type mismatch error naming k; with allow_list_keys on and b[k] a list
\* it does not raise that error.
C4_TypeMismatch ==
    (OneKeyMerge /\ IsDict(TheVal) /\ ~DeleteSet(TheVal)
       /\ HasKey(arg_b, TheKey) /\ Truthy(GetItem(arg_b, TheKey))
       /\ ~IsDict(GetItem(arg_b, TheKey)))
    => /\ ~allow => res.err = Raise("TypeError", "inherit", TheKey)
       /\ (allow /\ IsList(GetItem(arg_b, TheKey)))
            => res.err # Raise("TypeError", "inherit", TheKey)

\* C5: with allow_list_keys on, b a list and k a digit key of a: int(k) >=
\* len(b) raises the index-out-of-range error of the merge; int(k) < len(b)
\* does not, and a merge that returns has replaced element int(k) only.
C5_ListIndexRange ==
    (op = "merge" /\ allow /\ IsList(arg_b) /\ IsDict(arg_a) /\ Len(arg_a.d) = 1
       /\ IsDigit(TheKey))
    => IF IntOf(TheKey) >= Len(arg_b.l)
       THEN res.err = Raise("KeyError", "index_check", TheKey)
       ELSE /\ res.err # Raise("KeyError", "index_check", TheKey)
            /\ Returned =>
                 /\ IsList(res.out) /\ Len(res.out.l) = Len(arg_b.l)
                 /\ \A i \in 1..Len(arg_b.l) :
                      i # IntOf(TheKey) + 1 => res.out.l[i] = arg_b.l[i]

C15_FalsyBaseOverride ==
    (OneKeyMerge /\ IsDict(TheVal) /\ ~DeleteSet(TheVal)
       /\ HasKey(arg_b, TheKey) /\ ~Truthy(GetItem(arg_b, TheKey)))
    => /\ Returned
       /\ \/ PyEq(GetItem(res.out, TheKey), TheVal)
          \/ /\ HasKey(TheVal, DELETE_KEY)
             /\ PyEq(GetItem(res.out, TheKey), DelItem(TheVal, DELETE_KEY))

\* C16: the merge leaves the source mapping a as it was, the mappings
\* nested in it and their _delete_ flags included, so that merging a into b
\* once more, with the a that the first merge left, gives the same.
C16_SourceNotMutated ==
    op = "merge"
    => /\ res.a = arg_a
       /\ Returned => merge_a_into_b(res.a, arg_b, allow).out = res.out

(***************************************************************************)
(* Properties of Config._substitute_base_vars.                             *)
(***************************************************************************)
\* the dotted path walks from the mapping v through mappings to a value
RECURSIVE Resolves(_, _)
Resolves(v, segs) ==
    \/ segs = <<>>
    \/ /\ IsDict(v) /\ HasKey(v, Head(segs))
       /\ Resolves(GetItem(v, Head(segs)), Tail(segs))
\* the value the walk ends at
RECURSIVE ValueAt(_, _)
ValueAt(v, segs) ==
    IF segs = <<>> THEN v ELSE ValueAt(GetItem(v, Head(segs)), Tail(segs))
PathOf(tok) == SplitDots(GetItem(sub_var_dict, tok).s)
AllResolve ==
    \A tok \in KeysOf(sub_var_dict) : Resolves(sub_base_cfg, PathOf(tok))

\* r is c with every token string replaced by the value of its path in
\* base_cfg: same container kinds, same keys and lengths, other values equal
RECURSIVE IsSubstOf(_, _)
IsSubstOf(c, r) ==
    CASE IsStr(c) /\ HasKey(sub_var_dict, c.s) -> r = ValueAt(sub_base_cfg, PathOf(c.s))
      [] IsDict(c) ->
           /\ r.t = c.t /\ Len(r.d) = Len(c.d)
           /\ \A i \in 1..Len(c.d) :
                r.d[i].k = c.d[i].k /\ IsSubstOf(c.d[i].v, r.d[i].v)
      [] IsList(c) \/ IsTuple(c) ->
           /\ r.t = c.t /\ Len(r.l) = Len(c.l)
           /\ \A i \in 1..Len(c.l) : IsSubstOf(c.l[i], r.l[i])
      [] OTHER -> r = c

\* C8: when every path of base_var_dict resolves in base_cfg, the call
\* returns cfg with every token string, at any depth, replaced by the value
\* at its path and everything else as it was; cfg itself is left as it was,
\* and with an empty base_var_dict the result equals cfg.
C8_Substitution ==
    (op = "subst" /\ AllResolve)
    => /\ sres.err = NoErr
       /\ IsSubstOf(sub_cfg, sres.out)
       /\ sres.cfg = sub_cfg
       /\ KeysOf(sub_var_dict) = {} => sres.out = sub_cfg

\* the strings of v that are tokens, with the depth they lie at
RECURSIVE TokenDepths(_, _)
TokenDepths(v, n) ==
    CASE IsStr(v) -> IF HasKey(sub_var_dict, v.s) THEN {n} ELSE {}
      [] IsDict(v) -> UNION {TokenDepths(v.d[i].v, n + 1) : i \in 1..Len(v.d)}
      [] IsList(v) \/ IsTuple(v) -> UNION {TokenDepths(v.l[i], n + 1) : i \in 1..Len(v.l)}
      [] OTHER -> {}

\* a call that replaced a token three containers deep by a value that is not
\* a string
C8_Witness ==
    /\ op = "subst" /\ AllResolve /\ sres.err = NoErr
    /\ 3 \in TokenDepths(sub_cfg, 0)
    /\ sres.out # sub_cfg
    /\ \A tok \in KeysOf(sub_var_dict) : ~IsStr(ValueAt(sub_base_cfg, PathOf(tok)))

\* C9: a token (met in cfg) whose path does not resolve in base_cfg makes the
\* call raise the one missing-base-key error, the KeyError of the lookup.
C9_MissingBaseKey ==
    (op = "subst" /\ TokenDepths(sub_cfg, 0) # {}
       /\ \A tok \in KeysOf(sub_var_dict) : ~Resolves(sub_base_cfg, PathOf(tok)))
    => sres.err.exc = "KeyError" /\ sres.err.site = "base_var"

(***************************************************************************)
(* Properties of Config._file2dict.                                        *)
(***************************************************************************)
\* the keys that two or more of the mappings hold
SharedKeys(cfg_dict_list) ==
    {k \in UNION {KeysOf(cfg_dict_list[i]) : i \in 1..Len(cfg_dict_list)} :
        \E i, j \in 1..Len(cfg_dict_list) :
            i < j /\ k \in KeysOf(cfg_dict_list[i]) /\ k \in KeysOf(cfg_dict_list[j])}
\* base_cfg_dict holds the keys of all the mappings, each with the value of
\* the mapping that defines it
IsUnionOf(base_cfg_dict, cfg_dict_list) ==
    /\ KeysOf(base_cfg_dict) =
         UNION {KeysOf(cfg_dict_list[i]) : i \in 1..Len(cfg_dict_list)}
    /\ \A i \in 1..Len(cfg_dict_list) :
         \A k \in KeysOf(cfg_dict_list[i]) :
            GetItem(base_cfg_dict, k) = GetItem(cfg_dict_list[i], k)

\* C7: once the bases of a file are resolved, the call raises the duplicate
\* key error, naming keys that two bases share, exactly when some top-level
\* key occurs in two or more of their mappings; otherwise the combined
\* base mapping is the union of the mappings of the bases.
C7_DuplicateBaseKey ==
    /\ \A n \in 1..Len(stack) :
         stack[n].pc = "merge"
         => /\ SharedKeys(stack[n].cfg_dict_list) = {}
            /\ IsUnionOf(stack[n].base_cfg_dict, stack[n].cfg_dict_list)
    /\ ret.err = Raise("KeyError", "duplicate", "")
         => /\ ret.frame.duplicate_keys # {}
            /\ ret.frame.duplicate_keys \subseteq SharedKeys(ret.frame.cfg_dict_list)
    /\ (ret.err # NoErr /\ ret.frame.pc = "loop"
          /\ Len(ret.frame.cfg_dict_list) = Len(ret.frame.base_filename))
         => ret.err = Raise("KeyError", "duplicate", "")

\* a file with three bases, no two of which share a key, after the check
C7_Witness ==
    /\ op = "load" /\ stack # <<>>
    /\ Top.pc = "merge"
    /\ Len(Top.cfg_dict_list) = 3
    /\ \A i \in 1..3 : KeysOf(Top.cfg_dict_list[i]) # {}
    /\ Cardinality(KeysOf(Top.base_cfg_dict)) >= 3

\* C10: a call whose loaded mapping has no _base_ key ends at line 383: it
\* returns, without error, the mapping of the file (minus the deprecation
\* metadata) and the text of the file after its path.
C10_NoBaseEndsRecursion ==
    (ret.frame.pc = "base" /\ ~HasKey(ret.frame.cfg_dict, BASE_KEY))
    => /\ ret.err = NoErr
       /\ ret.cfg_dict = pop_deprecation(fs[ret.frame.filename].dict)
       /\ ret.cfg_text = ret.frame.filename \o "\n" \o fs[ret.frame.filename].text

\* C11: a file that is already among the files being resolved is never
\* loaded again: the call for it fails on entry (a circular base reference)
\* and goes no further, so that the calls in progress are for different
\* files and the recursion ends.
C11_CycleDetected ==
    \A i, j \in 1..Len(stack) :
        (i < j /\ stack[i].filename = stack[j].filename) => stack[j].pc = "enter"

(***************************************************************************)
(* Properties of Config.fromfile and of Config objects.                    *)
(***************************************************************************)
\* the file the load was called on was read and its own mapping holds a
\* reserved key
ChildHasReservedKey ==
    /\ entry \in DOMAIN fs
    /\ KeysOf(fs[entry].dict) \cap RESERVED_KEYS # {}
    /\ ~(ret.err # NoErr /\ ret.frame.filename = entry /\ ret.frame.pc = "enter")

\* C12: when the mapping of the child file itself holds a reserved key, the
\* load fails with the reserved key error, whatever the resolution of the
\* bases, the substitution and the merge give: no error of theirs is
\* reported in its place.
C12_ReservedKeyFirst ==
    ChildHasReservedKey
    => /\ op = "loaded" => ret.err = NoErr
       /\ op = "doc" => dres.err.exc = "KeyError" /\ dres.err.site = "reserved"

TokensOf(p) ==
    {k \in KeysOf(pres.base_var_dict) : GetItem(pres.base_var_dict, k) = PyStr(p)}
\* the text, from position i on, with every placeholder replaced by the
\* string literal of the token of its own path
RECURSIVE WithTokens(_, _)
WithTokens(text, i) ==
    IF i > Len(text) THEN ""
    ELSE IF match_placeholder(text, i).ok
    THEN "\"" \o (CHOOSE k \in TokensOf(match_placeholder(text, i).group) : TRUE)
         \o "\"" \o WithTokens(text, match_placeholder(text, i).end)
    ELSE CharAt(text, i) \o WithTokens(text, i + 1)

\* C14: the returned map records exactly one token for each path that the
\* text references and nothing else, so that two paths have two tokens; the
\* text written is the text read with every placeholder, whatever its inner
\* white space, replaced by the string literal of the token of its own
\* path; a text without placeholder gives the empty map and is written as
\* it was read.
C14_TokenPerPath ==
    op = "pre"
    => /\ \A p \in base_vars(pre_in.text) : Cardinality(TokensOf(p)) = 1
       /\ \A k \in KeysOf(pres.base_var_dict) :
            GetItem(pres.base_var_dict, k).s \in base_vars(pre_in.text)
       /\ pres.config_file = WithTokens(pre_in.text, 1)
       /\ base_vars(pre_in.text) = {}
            => pres.base_var_dict = PyDict(<<>>) /\ pres.config_file = pre_in.text

====
